---- MODULE Spec2Model ----
(***************************************************************************)
(* Model of the Ulysses_Tarot image scripts: compress_images.py            *)
(* (conservative), compress_images_aggressive.py (aggressive),             *)
(* compress_webp_aggressive.py (WebP re-encode), convert_to_webp.py        *)
(* (JPG -> WebP) and restore_and_convert.py, run one after another on the  *)
(* directory cards/ and its backup subdirectories.                         *)
(*                                                                         *)
(* A file name is a record [pre, base, ext]: pre counts the leading        *)
(* ".temp_" prefixes, base is the card's base name, ext the suffix without *)
(* its dot.  A directory is a function from the names present to the       *)
(* contents of the files.  A file's content is a record: its byte size,    *)
(* the decoded image (colour mode and alpha plane), whether it decodes at  *)
(* all (ok) and how many times it was re-encoded (gen), so that two files  *)
(* are byte-identical exactly when their records are equal.                *)
(***************************************************************************)
EXTENDS Integers, Sequences, FiniteSets, TLC

\* ------------------------------------------------------------------ bounds
NumAssets == 2
MaxSize == 2
MaxRuns == 3
MaxDim == 6

\* ------------------------------------------------------- program constants
ExpectedCount == 78
JpgQuality == 90

Bases == 1..NumAssets
Sizes == 1..MaxSize

image_extensions == {"png", "jpg", "jpeg", "PNG", "JPG", "JPEG"}

Lower(e) ==
  CASE e = "PNG" -> "png"
    [] e = "JPG" -> "jpg"
    [] e = "JPEG" -> "jpeg"
    [] OTHER -> e

\* ------------------------------------------------------------------- names
NoName == [pre |-> 0, base |-> 0, ext |-> "none"]

PlainName(b, e) == [pre |-> 0, base |-> b, ext |-> e]

\* cards_dir / f".temp_{name}"
TempName(n) == [n EXCEPT !.pre = @ + 1]

\* Path.with_suffix
with_suffix(n, e) == [n EXCEPT !.ext = e]

\* name.startswith('.temp_')
IsTemp(n) == n.pre > 0

\* order of sorted(): ".temp_" sorts before any base name
Before(a, b) == a.pre > b.pre \/ (a.pre = b.pre /\ a.base < b.base)

First(S) == CHOOSE n \in S : \A m \in S \ {n} : Before(n, m)

\* ------------------------------------------------------------- directories
NoFile == [size |-> 0, mode |-> "none", alpha |-> <<>>, ok |-> FALSE, gen |-> 0]

EmptyDir == [n \in {} |-> NoFile]

Write(d, n, c) == [x \in DOMAIN d \cup {n} |-> IF x = n THEN c ELSE d[x]]

Remove(d, n) == [x \in DOMAIN d \ {n} |-> d[x]]

Rename(d, a, b) == Write(Remove(d, a), b, d[a])

Glob(d, e) == {n \in DOMAIN d : n.ext = e}

\* ------------------------------------------------------------------ images
\* what a failed save leaves behind when it leaves anything
Partial == [size |-> 1, mode |-> "none", alpha |-> <<>>, ok |-> FALSE, gen |-> 0]

has_transparency(img) ==
  IF img.mode \in {"RGBA", "LA"}
  THEN IF img.mode = "RGBA"
       THEN \E i \in DOMAIN img.alpha : img.alpha[i] < 255
       ELSE TRUE
  ELSE FALSE

\* img.convert('RGB') when the mode is not RGB
ToRGB(c) == IF c.mode # "RGB" THEN [c EXCEPT !.mode = "RGB", !.alpha = <<>>] ELSE c

\* the mode normalisation of compress_images.compress_image
Normalise(c) == IF c.mode = "RGBA" THEN c ELSE ToRGB(c)

\* the file a successful save writes: the image re-encoded to s bytes
Encoded(c, s) == [c EXCEPT !.size = s, !.gen = @ + 1]

\* every file of the collection starts at the largest size, so that a first
\* candidate can be smaller or equal and a later one also larger
InitSizes == {MaxSize}

PngKinds ==
  { [mode |-> "RGB", alpha |-> <<>>],
    [mode |-> "RGBA", alpha |-> <<255, 255>>],
    [mode |-> "RGBA", alpha |-> <<255, 254>>],
    [mode |-> "LA", alpha |-> <<255, 255>>] }

InitFiles ==
  { [ext |-> "png", c |-> [size |-> s, mode |-> k.mode, alpha |-> k.alpha, ok |-> TRUE, gen |-> 0]]
      : s \in InitSizes, k \in PngKinds }
  \cup
  { [ext |-> e, c |-> [size |-> s, mode |-> "RGB", alpha |-> <<>>, ok |-> TRUE, gen |-> 0]]
      : s \in InitSizes, e \in {"jpg", "webp"} }

InitDir(f) ==
  [n \in {PlainName(b, f[b].ext) : b \in Bases} |-> f[n.base].c]

\* ------------------------------------------------------------------- state
VARIABLES
  cards,      \* the collection root cards/: name -> content
  bak,        \* the backup areas: area -> (name -> content)
  dirs,       \* the backup areas whose directory exists
  script,     \* the script that is running, "none" between runs
  pc,         \* position of the running script
  todo,       \* the files the loop has still to visit
  cur,        \* the file of the last session
  res,        \* what the compress / convert function returned in it
  stats,      \* the counters of main()
  summary,    \* the final summary lines have been printed
  warned,     \* the shortfall warning has been printed
  runs,       \* number of runs started
  selected,   \* history: the files the loop of this run visits
  cards0,     \* history: cards/ when this run started
  log,        \* history: per file visited, what the codec produced for it
  doc,        \* index.html: the image references it holds, and how often it was written
  plan_io,    \* a call of the format selection of compress_image on its own
  alpha_io,   \* a call of has_transparency on its own
  resize_io   \* a call of the resize step on its own

\* the calls of the pure functions
pure == <<plan_io, alpha_io, resize_io>>

vars == <<cards, bak, dirs, script, pc, todo, cur, res, stats, summary, warned,
          runs, selected, cards0, log, doc, pure>>

Areas == {"backup_original", "backup_webp_original", "backup_jpg"}

NoRes == [ok |-> FALSE, osize |-> 0, csize |-> 0, final |-> NoName, msg |-> "none"]

\* processed, failed, converted_to_jpg: compress_images*.py; converted: the counter
\* of the other three scripts; kept_png: restore_and_convert.py
ZeroStats == [processed |-> 0, failed |-> 0, converted_to_jpg |-> 0, converted |-> 0,
              kept_png |-> 0, total_original |-> 0, total_compressed |-> 0]

NoLog == [n \in {} |-> [ok |-> FALSE, osize |-> 0, csize |-> 0]]

\* ---------------------------------------------------------------- index.html
Upper(e) ==
  CASE e = "png" -> "PNG"
    [] e = "jpg" -> "JPG"
    [] e = "jpeg" -> "JPEG"
    [] OTHER -> e

\* the document before any script has run: each card is referenced twice, once
\* as its file is named and once with the extension in capitals
InitDoc(d) ==
  [content |->
     [i \in 1..(2 * NumAssets) |->
        LET n == CHOOSE m \in DOMAIN d : m.base = (i + 1) \div 2
        IN IF i % 2 = 1 THEN n ELSE with_suffix(n, Upper(n.ext))],
   writes |-> 0]

NoDoc == [content |-> <<>>, writes |-> 0]

\* ------------------------------------------- calls of the pure functions
NoPlan == [format |-> "none", quality |-> 0, level |-> 0, suffix |-> "none", rgb |-> FALSE]

PlanIdle ==
  [ext |-> "none", has_alpha |-> FALSE, jpg_quality |-> 0, use_webp |-> FALSE,
   called |-> FALSE, out |-> NoPlan]

\* the calls main makes (jpg_quality=90) for every suffix it lets through, with
\* either value of has_alpha and of use_webp
PlanInputs ==
  { [ext |-> e, has_alpha |-> a, jpg_quality |-> JpgQuality, use_webp |-> u,
     called |-> FALSE, out |-> NoPlan]
      : e \in image_extensions, a \in BOOLEAN, u \in BOOLEAN }

AlphaIdle == [img |-> [mode |-> "none", alpha |-> <<>>], called |-> FALSE, out |-> FALSE]

\* alpha samples: transparent, nearly opaque, opaque
AlphaValues == {0, 254, 255}

\* the modes Image.open gives a PNG or JPEG file, with every alpha plane of two
\* pixels for the modes that have one
AlphaInputs ==
  { [img |-> [mode |-> m, alpha |-> <<>>], called |-> FALSE, out |-> FALSE]
      : m \in {"RGB", "L", "P", "CMYK"} }
  \cup
  { [img |-> [mode |-> m, alpha |-> <<a, b>>], called |-> FALSE, out |-> FALSE]
      : m \in {"RGBA", "LA"}, a \in AlphaValues, b \in AlphaValues }

ResizeIdle ==
  [w |-> 0, h |-> 0, maxw |-> 0, maxh |-> 0, called |-> FALSE, out |-> <<0, 0>>]

ResizeInputs ==
  { [w |-> w, h |-> h, maxw |-> mw, maxh |-> mh, called |-> FALSE, out |-> <<0, 0>>]
      : w \in 1..MaxDim, h \in 1..MaxDim, mw \in 1..MaxDim, mh \in 1..MaxDim }

Init ==
  /\ cards \in {InitDir(f) : f \in [Bases -> InitFiles]}
  /\ bak = [a \in Areas |-> EmptyDir]
  /\ dirs = {}
  /\ script = "none"
  /\ pc = "idle"
  /\ todo = {}
  /\ cur = NoName
  /\ res = NoRes
  /\ stats = ZeroStats
  /\ summary = FALSE
  /\ warned = FALSE
  /\ runs = 0
  /\ selected = {}
  /\ cards0 = EmptyDir
  /\ log = NoLog
  /\ doc = InitDoc(cards)
  /\ plan_io = PlanIdle
  /\ alpha_io = AlphaIdle
  /\ resize_io = ResizeIdle

\* ------------------------------------------------------------ shared steps
\* the state main() enters its loop in
Begin(s, files) ==
  /\ script' = s
  /\ pc' = "loop"
  /\ todo' = files
  /\ selected' = files
  /\ cards0' = cards
  /\ cur' = NoName
  /\ res' = NoRes
  /\ stats' = ZeroStats
  /\ summary' = FALSE
  /\ warned' = FALSE
  /\ log' = NoLog
  /\ runs' = runs + 1

\* main() returns before its loop
Return(s) ==
  /\ script' = s
  /\ pc' = "returned"
  /\ todo' = {}
  /\ selected' = {}
  /\ cards0' = cards
  /\ cur' = NoName
  /\ res' = NoRes
  /\ stats' = ZeroStats
  /\ summary' = FALSE
  /\ warned' = FALSE
  /\ log' = NoLog
  /\ runs' = runs + 1

\* shutil.copy2 raises inside the session of n and nothing catches it
Crash(n) ==
  /\ pc' = "crashed"
  /\ cur' = n
  /\ res' = NoRes
  /\ UNCHANGED <<dirs, script, todo, stats, summary, warned, runs, selected, cards0, log, doc, pure>>

\* what a shutil.copy2 that raises leaves in the target directory b: nothing, or
\* a truncated file when the source could be opened
copy2_fails(b, d, n) ==
  {b} \cup (IF n \in DOMAIN d THEN {Write(b, n, Partial)} ELSE {})

\* the backup step goes through: the backup is there, or there is a file to copy
CanBackup(b, d, n) == n \in DOMAIN b \/ n \in DOMAIN d

\* the bytes shutil.copy2 reads
Source(d, n) == IF n \in DOMAIN d THEN d[n] ELSE NoFile

\* mutant of ensure_backup: the copy is made without the exists() test
ensure_backup_always(b, n, c) == Write(b, n, c)

\* backup_path = backup_dir / name; if not backup_path.exists(): copy2
ensure_backup(b, n, c) == IF n \in DOMAIN b THEN b ELSE Write(b, n, c)

\* mutant of Tally: a discarded session adds its original size to both totals
Tally_discards_too(st, r) ==
  IF r.ok
  THEN [st EXCEPT !.total_original = @ + r.osize,
                  !.total_compressed = @ + (IF r.csize < r.osize THEN r.csize ELSE r.osize)]
  ELSE st

\* total_original += ...; total_compressed += ...
Tally(st, r) ==
  IF r.ok /\ r.csize < r.osize
  THEN [st EXCEPT !.total_original = @ + r.osize, !.total_compressed = @ + r.csize]
  ELSE st

\* what a compress / convert function can do when its input decodes: fail
\* before writing, fail leaving a partial file at out, or write the candidate
\* img at any size
Outcomes(d, n, out, img) ==
  IF n \notin DOMAIN d \/ ~d[n].ok
  THEN {[d |-> d, res |-> NoRes]}
  ELSE {[d |-> d, res |-> NoRes], [d |-> Write(d, out, Partial), res |-> NoRes]}
       \cup
       { [d |-> Write(d, out, Encoded(img, s)),
          res |-> [NoRes EXCEPT !.ok = TRUE, !.osize = d[n].size, !.csize = s, !.final = out]]
           : s \in Sizes }

\* history: the session of n ended with the function's result r
Logged(l, n, r) ==
  [x \in DOMAIN l \cup {n} |->
     IF x = n THEN [ok |-> r.ok, osize |-> r.osize, csize |-> r.csize] ELSE l[x]]


\* the process exits; the next script may be started
Exit ==
  /\ pc \in {"done", "returned", "crashed"}
  /\ script' = "none"
  /\ pc' = "idle"
  /\ todo' = {}
  /\ cur' = NoName
  /\ res' = NoRes
  /\ stats' = ZeroStats
  /\ summary' = FALSE
  /\ warned' = FALSE
  /\ selected' = {}
  /\ cards0' = EmptyDir
  /\ log' = NoLog
  /\ UNCHANGED <<cards, bak, dirs, runs, doc, pure>>

\* ------------------------------------------- compress_images.py (conservative)
\* compress_image(img_file, temp_output, quality=85, max_size=(2000, 3000))
cons_compress_image(d, input_path, output_path) ==
  Outcomes(d, input_path, output_path, Normalise(Source(d, input_path)))

\* mutant of cons_commit: the candidate replaces the original when it is not larger
cons_commit_on_equal(d, img_file, temp_output, r) ==
  IF r.ok
  THEN IF r.csize <= r.osize
       THEN Rename(d, temp_output, img_file)
       ELSE Remove(d, temp_output)
  ELSE Remove(d, temp_output)

\* if original_size and compressed_size: ... else: ... : the files
cons_commit(d, img_file, temp_output, r) ==
  IF r.ok
  THEN IF r.csize < r.osize
       THEN Rename(d, temp_output, img_file)
       ELSE Remove(d, temp_output)
  ELSE Remove(d, temp_output)

\* ... : the counters
cons_count(st, r) ==
  IF r.ok
  THEN [Tally(st, r) EXCEPT !.processed = @ + 1]
  ELSE [st EXCEPT !.failed = @ + 1]

cons_start ==
  /\ pc = "idle" /\ runs < MaxRuns
  /\ dirs' = dirs \cup {"backup_original"}
  /\ Begin("conservative", {n \in DOMAIN cards : n.ext \in image_extensions})
  /\ UNCHANGED <<cards, bak, doc, pure>>

\* the body of: for img_file in cards_dir.iterdir()
cons_session ==
  /\ script = "conservative" /\ pc = "loop"
  /\ \E n \in todo :
       \/ /\ n \notin DOMAIN bak["backup_original"]
          /\ Crash(n)
          /\ \E b \in copy2_fails(bak["backup_original"], cards, n) :
               bak' = [bak EXCEPT !["backup_original"] = b]
          /\ UNCHANGED cards
       \/ /\ CanBackup(bak["backup_original"], cards, n)
          /\ bak' = [bak EXCEPT !["backup_original"] = ensure_backup(@, n, Source(cards, n))]
          /\ \E o \in cons_compress_image(cards, n, TempName(n)) :
               /\ cards' = cons_commit(o.d, n, TempName(n), o.res)
               /\ stats' = cons_count(stats, o.res)
               /\ res' = o.res
               /\ log' = Logged(log, n, o.res)
          /\ todo' = todo \ {n}
          /\ cur' = n
          /\ UNCHANGED <<dirs, script, pc, summary, warned, runs, selected, cards0, doc, pure>>

cons_finish ==
  /\ script = "conservative" /\ pc = "loop" /\ todo = {}
  /\ pc' = "done"
  /\ summary' = TRUE
  /\ cur' = NoName
  /\ res' = NoRes
  /\ UNCHANGED <<cards, bak, dirs, script, todo, stats, warned, runs, selected, cards0, log, doc, pure>>

\* ---------------------------------- compress_images_aggressive.py (aggressive)
\* mutant of aggr_plan: the suffix is compared without .lower()
aggr_plan_case_sensitive(ext, has_alpha, jpg_quality, use_webp) ==
  IF use_webp /\ has_alpha
  THEN [format |-> "WEBP", quality |-> 85, level |-> 6, suffix |-> ext, rgb |-> FALSE]
  ELSE IF ext = "png" /\ ~has_alpha
  THEN [format |-> "JPEG", quality |-> jpg_quality, level |-> 0, suffix |-> "jpg", rgb |-> TRUE]
  ELSE IF ext = "png"
  THEN IF use_webp
       THEN [format |-> "WEBP", quality |-> 85, level |-> 6, suffix |-> ext, rgb |-> FALSE]
       ELSE [format |-> "PNG", quality |-> 0, level |-> 9, suffix |-> ext, rgb |-> FALSE]
  ELSE [format |-> "JPEG", quality |-> jpg_quality, level |-> 0, suffix |-> ext, rgb |-> TRUE]

\* the branch compress_image takes: container, quality, suffix of the output
\* path and whether the image is first converted to RGB
aggr_plan(ext, has_alpha, jpg_quality, use_webp) ==
  IF use_webp /\ has_alpha
  THEN [format |-> "WEBP", quality |-> 85, level |-> 6, suffix |-> ext, rgb |-> FALSE]
  ELSE IF Lower(ext) = "png" /\ ~has_alpha
  THEN [format |-> "JPEG", quality |-> jpg_quality, level |-> 0, suffix |-> "jpg", rgb |-> TRUE]
  ELSE IF Lower(ext) = "png"
  THEN IF use_webp
       THEN [format |-> "WEBP", quality |-> 85, level |-> 6, suffix |-> ext, rgb |-> FALSE]
       ELSE [format |-> "PNG", quality |-> 0, level |-> 9, suffix |-> ext, rgb |-> FALSE]
  ELSE [format |-> "JPEG", quality |-> jpg_quality, level |-> 0, suffix |-> ext, rgb |-> TRUE]

\* compress_image(img_file, temp_output, jpg_quality=90, max_size=(1200, 2000),
\*                use_webp=False)
aggr_compress_image(d, input_path, output_path, jpg_quality, use_webp) ==
  LET src == Source(d, input_path)
      plan == aggr_plan(input_path.ext, has_transparency(src), jpg_quality, use_webp)
  IN Outcomes(d, input_path, with_suffix(output_path, plan.suffix),
              IF plan.rgb THEN ToRGB(src) ELSE src)

\* if original_size and compressed_size: ... else: ... : the files
aggr_commit(d, img_file, temp_output, r) ==
  IF r.ok
  THEN IF r.csize < r.osize
       THEN IF r.final.ext # img_file.ext
            THEN Remove(d, img_file)
            ELSE Rename(d, temp_output, img_file)
       ELSE IF r.final # temp_output
            THEN Remove(Remove(d, temp_output), r.final)
            ELSE Remove(d, temp_output)
  ELSE Remove(d, temp_output)

\* ... : the counters
aggr_count(st, img_file, r) ==
  IF r.ok
  THEN IF r.csize < r.osize /\ r.final.ext # img_file.ext
       THEN [Tally(st, r) EXCEPT !.processed = @ + 1, !.converted_to_jpg = @ + 1]
       ELSE [Tally(st, r) EXCEPT !.processed = @ + 1]
  ELSE [st EXCEPT !.failed = @ + 1]

aggr_start ==
  /\ pc = "idle" /\ runs < MaxRuns
  /\ dirs' = dirs \cup {"backup_original"}
  /\ Begin("aggressive", {n \in DOMAIN cards : n.ext \in image_extensions /\ ~IsTemp(n)})
  /\ UNCHANGED <<cards, bak, doc, pure>>

\* the body of: for img_file in cards_dir.iterdir()
aggr_session ==
  /\ script = "aggressive" /\ pc = "loop"
  /\ \E n \in todo :
       \/ /\ n \notin DOMAIN bak["backup_original"]
          /\ Crash(n)
          /\ \E b \in copy2_fails(bak["backup_original"], cards, n) :
               bak' = [bak EXCEPT !["backup_original"] = b]
          /\ UNCHANGED cards
       \/ /\ CanBackup(bak["backup_original"], cards, n)
          /\ bak' = [bak EXCEPT !["backup_original"] = ensure_backup(@, n, Source(cards, n))]
          /\ \E o \in aggr_compress_image(cards, n, TempName(n), 90, FALSE) :
               /\ cards' = aggr_commit(o.d, n, TempName(n), o.res)
               /\ stats' = aggr_count(stats, n, o.res)
               /\ res' = o.res
               /\ log' = Logged(log, n, o.res)
          /\ todo' = todo \ {n}
          /\ cur' = n
          /\ UNCHANGED <<dirs, script, pc, summary, warned, runs, selected, cards0, doc, pure>>

aggr_finish ==
  /\ script = "aggressive" /\ pc = "loop" /\ todo = {}
  /\ pc' = "done"
  /\ summary' = TRUE
  /\ cur' = NoName
  /\ res' = NoRes
  /\ UNCHANGED <<cards, bak, dirs, script, todo, stats, warned, runs, selected, cards0, log, doc, pure>>

\* ------------------------------- compress_webp_aggressive.py (WebP re-encode)
\* compress_webp_aggressive(webp_file, temp_output, quality=75, max_size=(1000, 1667))
compress_webp_aggressive(d, webp_path, output_path) ==
  Outcomes(d, webp_path, output_path, ToRGB(Source(d, webp_path)))

\* mutant of webp_commit: the discard branch unlinks the original with the candidate
webp_commit_unlinks_original(d, webp_file, temp_output, r) ==
  IF r.ok /\ r.csize < r.osize
  THEN Rename(d, temp_output, webp_file)
  ELSE IF r.ok
  THEN Remove(Remove(d, temp_output), webp_file)
  ELSE Remove(d, temp_output)

\* if success and comp_size < orig_size: ... elif success: ... else: ... : the files
webp_commit(d, webp_file, temp_output, r) ==
  IF r.ok /\ r.csize < r.osize
  THEN Rename(d, temp_output, webp_file)
  ELSE IF r.ok
  THEN Remove(d, temp_output)
  ELSE Remove(d, temp_output)

\* ... : the counters
webp_count(st, r) ==
  IF r.ok
  THEN [Tally(st, r) EXCEPT !.converted = @ + 1]
  ELSE [st EXCEPT !.failed = @ + 1]

webp_start ==
  /\ pc = "idle" /\ runs < MaxRuns
  /\ dirs' = dirs \cup {"backup_webp_original"}
  /\ IF Glob(cards, "webp") = {}
     THEN Return("webp")
     ELSE Begin("webp", Glob(cards, "webp"))
  /\ UNCHANGED <<cards, bak, doc, pure>>

\* the body of: for webp_file in sorted(webp_files)
webp_session ==
  /\ script = "webp" /\ pc = "loop" /\ todo # {}
  /\ LET n == First(todo) IN
       \/ /\ n \notin DOMAIN bak["backup_webp_original"]
          /\ Crash(n)
          /\ \E b \in copy2_fails(bak["backup_webp_original"], cards, n) :
               bak' = [bak EXCEPT !["backup_webp_original"] = b]
          /\ UNCHANGED cards
       \/ /\ CanBackup(bak["backup_webp_original"], cards, n)
          /\ bak' = [bak EXCEPT !["backup_webp_original"] =
                                   ensure_backup(@, n, Source(cards, n))]
          /\ \E o \in compress_webp_aggressive(cards, n, TempName(n)) :
               /\ cards' = webp_commit(o.d, n, TempName(n), o.res)
               /\ stats' = webp_count(stats, o.res)
               /\ res' = o.res
               /\ log' = Logged(log, n, o.res)
          /\ todo' = todo \ {n}
          /\ cur' = n
          /\ UNCHANGED <<dirs, script, pc, summary, warned, runs, selected, cards0, doc, pure>>

webp_finish ==
  /\ script = "webp" /\ pc = "loop" /\ todo = {}
  /\ pc' = "done"
  /\ summary' = TRUE
  /\ cur' = NoName
  /\ res' = NoRes
  /\ UNCHANGED <<cards, bak, dirs, script, todo, stats, warned, runs, selected, cards0, log, doc, pure>>

\* --------------------------------------------- convert_to_webp.py (JPG -> WebP)
\* convert_jpg_to_webp(jpg_file, webp_file, quality=85, max_size=(1200, 2000))
convert_jpg_to_webp(d, jpg_path, webp_path) ==
  Outcomes(d, jpg_path, webp_path, ToRGB(Source(d, jpg_path)))

\* if success and comp_size < orig_size: ... elif success: ... else: ... : the files
conv_commit(d, jpg_file, webp_file, r) ==
  IF r.ok /\ r.csize < r.osize
  THEN Remove(d, jpg_file)
  ELSE IF r.ok
  THEN Remove(d, webp_file)
  ELSE d

\* ... : the counters
conv_count(st, r) ==
  IF r.ok
  THEN [Tally(st, r) EXCEPT !.converted = @ + 1]
  ELSE [st EXCEPT !.failed = @ + 1]

conv_start ==
  /\ pc = "idle" /\ runs < MaxRuns
  /\ dirs' = dirs \cup {"backup_jpg"}
  /\ IF Glob(cards, "jpg") = {}
     THEN Return("convert")
     ELSE Begin("convert", Glob(cards, "jpg"))
  /\ UNCHANGED <<cards, bak, doc, pure>>

\* the body of: for jpg_file in sorted(jpg_files)
conv_session ==
  /\ script = "convert" /\ pc = "loop" /\ todo # {}
  /\ LET n == First(todo)
         webp_file == with_suffix(n, "webp")
     IN \E o \in convert_jpg_to_webp(cards, n, webp_file) :
          IF o.res.ok /\ o.res.csize < o.res.osize
          THEN \/ /\ n \notin DOMAIN bak["backup_jpg"]
                  /\ Crash(n)
                  /\ \E b \in copy2_fails(bak["backup_jpg"], o.d, n) :
                       bak' = [bak EXCEPT !["backup_jpg"] = b]
                  /\ cards' = o.d
               \/ /\ CanBackup(bak["backup_jpg"], o.d, n)
                  /\ bak' = [bak EXCEPT !["backup_jpg"] = ensure_backup(@, n, Source(o.d, n))]
                  /\ cards' = conv_commit(o.d, n, webp_file, o.res)
                  /\ stats' = conv_count(stats, o.res)
                  /\ res' = o.res
                  /\ log' = Logged(log, n, o.res)
                  /\ todo' = todo \ {n}
                  /\ cur' = n
                  /\ UNCHANGED <<dirs, script, pc, summary, warned, runs, selected, cards0, doc, pure>>
          ELSE /\ cards' = conv_commit(o.d, n, webp_file, o.res)
               /\ stats' = conv_count(stats, o.res)
               /\ res' = o.res
               /\ log' = Logged(log, n, o.res)
               /\ todo' = todo \ {n}
               /\ cur' = n
               /\ UNCHANGED <<bak, dirs, script, pc, summary, warned, runs, selected, cards0, doc, pure>>

conv_finish ==
  /\ script = "convert" /\ pc = "loop" /\ todo = {}
  /\ pc' = "done"
  /\ summary' = TRUE
  /\ cur' = NoName
  /\ res' = NoRes
  /\ UNCHANGED <<cards, bak, dirs, script, todo, stats, warned, runs, selected, cards0, log, doc, pure>>

\* -------------------------------------------------------- restore_and_convert.py
\* convert_png_to_jpg(png_file, jpg_file, quality=90, max_size=(1200, 2000)); png is
\* the content of the backup file, d is cards/
convert_png_to_jpg(d, png, jpg_path) ==
  IF ~png.ok
  THEN {[d |-> d, res |-> [NoRes EXCEPT !.msg = "error"]]}
  ELSE IF has_transparency(png)
  THEN {[d |-> d, res |-> [NoRes EXCEPT !.msg = "error"]],
        [d |-> d, res |-> [NoRes EXCEPT !.msg = "alpha"]]}
  ELSE {[d |-> d, res |-> [NoRes EXCEPT !.msg = "error"]],
        [d |-> Write(d, jpg_path, Partial), res |-> [NoRes EXCEPT !.msg = "error"]]}
       \cup
       { [d |-> Write(d, jpg_path, Encoded(ToRGB(png), s)),
          res |-> [NoRes EXCEPT !.ok = TRUE, !.osize = png.size, !.csize = s,
                                !.final = jpg_path, !.msg = "ok"]]
           : s \in Sizes }

\* if success: ... elif "透明通道" in message: ... else: ... : the counters
rest_count(st, r) ==
  IF r.ok
  THEN [st EXCEPT !.converted = @ + 1]
  ELSE IF r.msg = "alpha"
  THEN [st EXCEPT !.kept_png = @ + 1]
  ELSE [st EXCEPT !.failed = @ + 1]

rest_start ==
  /\ pc = "idle" /\ runs < MaxRuns
  /\ IF "backup_original" \notin dirs \/ Glob(bak["backup_original"], "png") = {}
     THEN Return("restore")
     ELSE Begin("restore", {n \in Glob(bak["backup_original"], "png") : ~IsTemp(n)})
  /\ UNCHANGED <<cards, bak, dirs, doc, pure>>

\* the body of: for png_file in sorted(png_files)
rest_session ==
  /\ script = "restore" /\ pc = "loop" /\ todo # {}
  /\ LET n == First(todo)
         png_file == bak["backup_original"][n]
         jpg_file == with_suffix(n, "jpg")
         png_output == n
     IN \E o \in convert_png_to_jpg(cards, png_file, jpg_file) :
          \/ /\ ~o.res.ok
             /\ Crash(n)
             /\ cards' \in copy2_fails(o.d, bak["backup_original"], png_output)
             /\ UNCHANGED bak
          \/ /\ cards' = IF o.res.ok
                         THEN Remove(o.d, png_output)
                         ELSE Write(o.d, png_output, png_file)
             /\ stats' = rest_count(stats, o.res)
             /\ res' = o.res
             /\ log' = Logged(log, n, o.res)
             /\ todo' = todo \ {n}
             /\ cur' = n
             /\ UNCHANGED <<bak, dirs, script, pc, summary, warned, runs, selected, cards0, doc, pure>>

rest_finish ==
  /\ script = "restore" /\ pc = "loop" /\ todo = {}
  /\ pc' = "done"
  /\ summary' = TRUE
  /\ warned' = (Cardinality(Glob(cards, "jpg")) + Cardinality(Glob(cards, "png")) < ExpectedCount)
  /\ cur' = NoName
  /\ res' = NoRes
  /\ UNCHANGED <<cards, bak, dirs, script, todo, stats, runs, selected, cards0, log, doc, pure>>

\* ------------------------------------------------------------ specification
Next ==
  \/ cons_start \/ cons_session \/ cons_finish
  \/ aggr_start \/ aggr_session \/ aggr_finish
  \/ webp_start \/ webp_session \/ webp_finish
  \/ conv_start \/ conv_session \/ conv_finish
  \/ rest_start \/ rest_session \/ rest_finish
  \/ Exit

Spec == Init /\ [][Next]_vars

\* ------------------------------------------------------------------ claims
Compressors == {"conservative", "aggressive", "webp"}

\* a session has just ended in the loop: cur is its file, res its result
SessionEnded == pc = "loop" /\ cur # NoName

\* a step that is one whole session ending normally
SessionStep == pc = "loop" /\ pc' = "loop"

\* the sessions counted as processed, under the counter each script uses
Processed(st) == st.processed + st.converted

JpegNames(b) == {m \in DOMAIN cards : m.base = b /\ ~IsTemp(m) /\ Lower(m.ext) \in {"jpg", "jpeg"}}

\* C1 (as claimed): after an aggressive session that commits a candidate whose
\* container differs from the source, the PNG is gone, base.jpg is the one live
\* JPEG of that base name, and converted_to_jpg counts the conversion.
C1_FormatChangeConsistent ==
  (script = "aggressive" /\ SessionEnded /\ res.ok /\ res.csize < res.osize
     /\ res.final.ext # cur.ext)
  => /\ cur \notin DOMAIN cards
     /\ with_suffix(cur, "jpg") \in DOMAIN cards
     /\ JpegNames(cur.base) = {with_suffix(cur, "jpg")}
     /\ stats.converted_to_jpg >= 1

\* C2 (as claimed): when a run of a compression script is complete, no file named
\* .temp_... is left in cards/.
C2_NoTempLeft ==
  (pc = "done" /\ script \in Compressors) => \A n \in DOMAIN cards : ~IsTemp(n)

\* C3 (as claimed): when a run of a compression script is complete, every file it
\* visited is still live, under its name or as base.jpg, and is byte-identical
\* to the file before the run or strictly smaller.
C3_NeverLargerNeverMissing ==
  (pc = "done" /\ script \in Compressors)
  => \A n \in selected :
       \E m \in {n, with_suffix(n, "jpg")} \cap DOMAIN cards :
          cards[m] = cards0[n] \/ cards[m].size < cards0[n].size

\* the backup area a script writes to
ActiveArea(s) ==
  CASE s = "webp" -> "backup_webp_original"
    [] s = "convert" -> "backup_jpg"
    [] OTHER -> "backup_original"

\* C4 (as claimed): a step of any script that replaces, overwrites or deletes a
\* live image of cards/ leaves a backup of that file in the script's backup area:
\* one that was there before the step, or one made from the bytes the file had.
C4_BackupBeforeMutation ==
  [][\A n \in DOMAIN cards :
       (~IsTemp(n) /\ cards[n].ok /\ (n \notin DOMAIN cards' \/ cards'[n] # cards[n]))
       => /\ n \in DOMAIN bak'[ActiveArea(script)]
          /\ (n \in DOMAIN bak[ActiveArea(script)] \/ bak'[ActiveArea(script)][n] = cards[n])]_vars

C6_BackupFailureIsCounted ==
  (script \in Compressors /\ cur # NoName /\ cur \notin DOMAIN log)
  => /\ pc # "crashed"
     /\ stats.failed >= 1

\* C7 (as claimed): a session of a compression script whose decode or encode
\* failed is counted under failed, leaves the live file as it was and leaves no
\* new file in cards/.
C7_FailureLeavesNothing ==
  [][(SessionStep /\ script \in Compressors /\ ~res'.ok)
     => /\ stats'.failed = stats.failed + 1
        /\ (cur' \in DOMAIN cards => cur' \in DOMAIN cards' /\ cards'[cur'] = cards[cur'])
        /\ DOMAIN cards' \subseteq DOMAIN cards]_vars

\* C8: a session whose candidate is not smaller than the original deletes the
\* candidate (the file the encoder wrote and, in the compression scripts, the
\* temporary output path), leaves the original byte-identical under its name,
\* and counts the file as processed, not failed.
C8_DiscardKeepsOriginal ==
  [][(SessionStep /\ script \in Compressors \cup {"convert"} /\ res'.ok
        /\ res'.csize >= res'.osize)
     => /\ res'.final \notin DOMAIN cards'
        /\ (script \in Compressors => TempName(cur') \notin DOMAIN cards')
        /\ cur' \in DOMAIN cards /\ cur' \in DOMAIN cards'
        /\ cards'[cur'] = cards[cur']
        /\ Processed(stats') = Processed(stats) + 1
        /\ stats'.failed = stats.failed]_vars

\* C8 witness: a session has ended whose candidate was larger than the original
C8_DiscardedLarger == SessionEnded /\ res.ok /\ res.csize > res.osize

RECURSIVE SumOf(_, _)
SumOf(w, S) ==
  IF S = {} THEN 0
  ELSE LET n == CHOOSE x \in S : TRUE IN w[n] + SumOf(w, S \ {n})

Committed == {n \in DOMAIN log : log[n].ok /\ log[n].csize < log[n].osize}
Discarded == {n \in DOMAIN log : log[n].ok /\ log[n].csize >= log[n].osize}

\* C9 (as claimed): at the end of a batch the totals cover the committed and the
\* discarded sessions: total_original is the sum of their original sizes and
\* total_compressed the sum of the sizes of the files left live.
C9_TotalsCoverDiscards ==
  (pc = "done" /\ script \in Compressors \cup {"convert"})
  => /\ stats.total_original = SumOf([n \in DOMAIN log |-> log[n].osize], Committed \cup Discarded)
     /\ stats.total_compressed =
          SumOf([n \in DOMAIN log |-> log[n].csize], Committed)
          + SumOf([n \in DOMAIN log |-> log[n].osize], Discarded)

\* C9 (amended): at the end of a batch the totals cover the committed sessions
\* only: total_original is the sum of their original sizes, total_compressed the
\* sum of their candidate sizes; a discarded session adds nothing to either.
C9_TotalsCoverCommitsOnly ==
  (pc = "done" /\ script \in Compressors \cup {"convert"})
  => /\ stats.total_original = SumOf([n \in DOMAIN log |-> log[n].osize], Committed)
     /\ stats.total_compressed = SumOf([n \in DOMAIN log |-> log[n].csize], Committed)

\* C9 witness: a batch has ended in which a session was discarded
C9_BatchWithDiscard ==
  pc = "done" /\ script \in Compressors \cup {"convert"} /\ Discarded # {}

\* C10 (as claimed): when a run that entered its loop has ended, the summary has
\* been printed and every selected file has been counted once, as processed or
\* as failed.
C10_EveryAssetCounted ==
  (pc \in {"done", "crashed"})
  => /\ summary
     /\ Processed(stats) + stats.kept_png + stats.failed = Cardinality(selected)

\* C11 (as claimed): a compression script never selects a file whose name starts
\* with .temp_: no such file is among the files its loop backs up, re-encodes
\* and counts.
C11_TempNeverSelected ==
  script \in Compressors => \A n \in selected : ~IsTemp(n)

\* C12 (as claimed): the path a session encodes its candidate to is not the path
\* of a live file, so a session leaves every live file other than the one it is
\* processing as it was: neither overwritten nor deleted.
C12_CandidateOffLivePath ==
  [][(pc = "loop" /\ cur' # NoName)
     => /\ res'.ok => ~(res'.final \in DOMAIN cards /\ ~IsTemp(res'.final))
        /\ \A n \in DOMAIN cards :
             (~IsTemp(n) /\ n # cur') => (n \in DOMAIN cards' /\ cards'[n] = cards[n])]_vars

\* the live files of cards/ with base name b
LiveNames(b) == {m \in DOMAIN cards : m.base = b /\ ~IsTemp(m)}

\* C13 (as claimed): when a session of convert_to_webp.py or of
\* restore_and_convert.py has ended, on any path, at most one live file has the
\* base name of the file it processed.
C13_OneLiveFilePerBase ==
  (script \in {"convert", "restore"} /\ SessionEnded /\ ~IsTemp(cur))
  => Cardinality(LiveNames(cur.base)) <= 1

\* ----------------------------------------------------- the pure functions
\* the state of the scripts, which a call of a pure function leaves alone
program == <<cards, bak, dirs, script, pc, todo, cur, res, stats, summary, warned,
             runs, selected, cards0, log, doc>>

Abs(x) == IF x < 0 THEN -x ELSE x

Max(a, b) == IF a >= b THEN a ELSE b

\* math.floor(a / b) and math.ceil(a / b) for a >= 0, b > 0
Floor(a, b) == a \div b

Ceil(a, b) == (a + b - 1) \div b

\* Image.thumbnail((x, y)) on an image of w by h: the size the image has after
\* the call.  aspect = w / h; fractions are compared by cross-multiplication.
thumbnail(w, h, x, y) ==
  IF x >= w /\ y >= h
  THEN <<w, h>>
  ELSE IF x * h >= w * y
  THEN \* x = round_aspect(y * aspect, key=lambda n: abs(aspect - n / y))
       LET f == Floor(y * w, h)
           c == Ceil(y * w, h)
           best == IF Abs(w * y - f * h) <= Abs(w * y - c * h) THEN f ELSE c
       IN <<Max(best, 1), y>>
  ELSE \* y = round_aspect(x / aspect, key=lambda n: 0 if n == 0 else abs(aspect - x / n))
       LET f == Floor(x * h, w)
           c == Ceil(x * h, w)
           best == IF f = 0 THEN f
                   ELSE IF Abs(w * f - x * h) * c <= Abs(w * c - x * h) * f THEN f ELSE c
       IN <<x, Max(best, 1)>>

\* mutant of resize_step: the image is resized only when both sides exceed the bound
resize_step_both(w, h, maxw, maxh) ==
  IF w > maxw /\ h > maxh THEN thumbnail(w, h, maxw, maxh) ELSE <<w, h>>

\* if img.size[0] > max_size[0] or img.size[1] > max_size[1]: img.thumbnail(max_size, ...)
resize_step(w, h, maxw, maxh) ==
  IF w > maxw \/ h > maxh THEN thumbnail(w, h, maxw, maxh) ELSE <<w, h>>

call_aggr_plan ==
  /\ ~plan_io.called /\ plan_io.ext # "none"
  /\ plan_io' = [plan_io EXCEPT !.called = TRUE,
                                !.out = aggr_plan(plan_io.ext, plan_io.has_alpha,
                                                  plan_io.jpg_quality, plan_io.use_webp)]
  /\ UNCHANGED <<program, alpha_io, resize_io>>

call_has_transparency ==
  /\ ~alpha_io.called /\ alpha_io.img.mode # "none"
  /\ alpha_io' = [alpha_io EXCEPT !.called = TRUE, !.out = has_transparency(alpha_io.img)]
  /\ UNCHANGED <<program, plan_io, resize_io>>

call_resize_step ==
  /\ ~resize_io.called /\ resize_io.w # 0
  /\ resize_io' = [resize_io EXCEPT !.called = TRUE,
                                    !.out = resize_step(resize_io.w, resize_io.h,
                                                        resize_io.maxw, resize_io.maxh)]
  /\ UNCHANGED <<program, plan_io, alpha_io>>

\* one call of one of the pure functions, on any input of the bounded sets
InitFn ==
  /\ cards = EmptyDir
  /\ bak = [a \in Areas |-> EmptyDir]
  /\ dirs = {}
  /\ script = "none"
  /\ pc = "idle"
  /\ todo = {}
  /\ cur = NoName
  /\ res = NoRes
  /\ stats = ZeroStats
  /\ summary = FALSE
  /\ warned = FALSE
  /\ runs = 0
  /\ selected = {}
  /\ cards0 = EmptyDir
  /\ log = NoLog
  /\ doc = NoDoc
  /\ \/ plan_io \in PlanInputs /\ alpha_io = AlphaIdle /\ resize_io = ResizeIdle
     \/ plan_io = PlanIdle /\ alpha_io \in AlphaInputs /\ resize_io = ResizeIdle
     \/ plan_io = PlanIdle /\ alpha_io = AlphaIdle /\ resize_io \in ResizeInputs

NextFn == call_aggr_plan \/ call_has_transparency \/ call_resize_step

SpecFn == InitFn /\ [][NextFn]_vars

\* ------------------------------------------------- claims on the pure functions
\* C14: with the WebP option off, the format selection of the aggressive script
\* gives, for a PNG suffix in any case without alpha, JPEG at quality 90 and the
\* suffix jpg; for a PNG suffix with alpha, PNG at compression level 9 and the
\* suffix unchanged; for a JPG or JPEG suffix, JPEG at quality 90 and the suffix
\* unchanged.
C14_AggressiveFormatSelection ==
  (plan_io.called /\ ~plan_io.use_webp)
  => LET out == plan_io.out
     IN IF Lower(plan_io.ext) = "png"
        THEN IF plan_io.has_alpha
             THEN out.format = "PNG" /\ out.level = 9 /\ out.suffix = plan_io.ext
             ELSE out.format = "JPEG" /\ out.quality = 90 /\ out.suffix = "jpg"
        ELSE out.format = "JPEG" /\ out.quality = 90 /\ out.suffix = plan_io.ext

\* C14 witness: the selection was made for an opaque image with the suffix PNG
C14_OpaqueUpperCasePng ==
  plan_io.called /\ ~plan_io.use_webp /\ plan_io.ext = "PNG" /\ ~plan_io.has_alpha

\* C15 (as claimed): has_transparency returns TRUE exactly for an image whose
\* mode has an alpha channel (RGBA or LA) and whose alpha plane has a sample
\* below 255; for a mode without alpha it returns FALSE.
C15_TransparentIffAlphaBelowOpaque ==
  alpha_io.called
  => (alpha_io.out <=>
        (/\ alpha_io.img.mode \in {"RGBA", "LA"}
         /\ \E i \in DOMAIN alpha_io.img.alpha : alpha_io.img.alpha[i] < 255))

\* C16: the resize step leaves a size within the bound unchanged; otherwise the
\* new size is within the bound and within the old size on both sides, the side
\* with the larger relative overflow is exactly at its bound, and the other side
\* is the proportional value rounded down or up (at least 1).
C16_ResizeWithinBounds ==
  resize_io.called
  => LET w == resize_io.w
         h == resize_io.h
         maxw == resize_io.maxw
         maxh == resize_io.maxh
         nw == resize_io.out[1]
         nh == resize_io.out[2]
     IN IF w <= maxw /\ h <= maxh
        THEN nw = w /\ nh = h
        ELSE /\ 1 <= nw /\ nw <= maxw /\ nw <= w
             /\ 1 <= nh /\ nh <= maxh /\ nh <= h
             /\ (h * maxw >= w * maxh) => (nh = maxh /\ Abs(nw * h - w * nh) < h)
             /\ (w * maxh >= h * maxw) => (nw = maxw /\ Abs(nh * w - h * nw) < w)

\* C16 witness: an image too wide but not too high was resized
C16_ResizedOnOneSide ==
  /\ resize_io.called
  /\ resize_io.w > resize_io.maxw /\ resize_io.h <= resize_io.maxh
  /\ resize_io.out # <<resize_io.w, resize_io.h>>

\* -------------------------------------------------------- claims on the runs
\* C17 (as claimed): when a run of a script that can change container extensions
\* (aggressive compression, JPG -> WebP conversion, restore-and-convert) has
\* ended and cards/ holds fewer files than the expected count, the shortfall
\* warning has been printed.
C17_ShortfallWarned ==
  (pc = "done" /\ script \in {"aggressive", "convert", "restore"}
     /\ Cardinality(DOMAIN cards) < ExpectedCount)
  => warned

\* ------------------------------------------------ update_html_references.py
\* pattern.search on one reference t of the document, for
\* pattern = re.compile(re.escape(png_name), re.IGNORECASE): png_name occurs in t
Matches(p, t) == p.base = t.base /\ Lower(p.ext) = Lower(t.ext) /\ p.pre <= t.pre

\* png_to_jpg: the PNG files of cards/ next to which a JPG of the same name exists
png_to_jpg(d) == {n \in Glob(d, "png") : with_suffix(n, "jpg") \in DOMAIN d}

\* content after pattern.sub(jpg_name, content) for every name of M
Substituted(content, M) ==
  [i \in DOMAIN content |->
     IF \E p \in M : Matches(p, content[i])
     THEN with_suffix(content[i], "jpg")
     ELSE content[i]]

\* update_html_references(), with index.html and cards/ present
update_html_references ==
  /\ pc = "idle" /\ runs < MaxRuns
  /\ LET M == png_to_jpg(cards)
         found == {p \in M : \E i \in DOMAIN doc.content : Matches(p, doc.content[i])}
     IN IF M = {}
        THEN Return("html") /\ doc' = doc
        ELSE /\ script' = "html"
             /\ pc' = "done"
             /\ todo' = {}
             /\ selected' = M
             /\ cards0' = cards
             /\ cur' = NoName
             /\ res' = NoRes
             /\ stats' = ZeroStats
             /\ summary' = TRUE
             /\ warned' = FALSE
             /\ log' = NoLog
             /\ runs' = runs + 1
             /\ doc' = IF found # {}
                       THEN [content |-> Substituted(doc.content, found),
                             writes |-> doc.writes + 1]
                       ELSE doc
  /\ UNCHANGED <<cards, bak, dirs, pure>>

\* the scripts that turn PNG into JPG, and the reference updater
NextHtml ==
  \/ aggr_start \/ aggr_session \/ aggr_finish
  \/ rest_start \/ rest_session \/ rest_finish
  \/ update_html_references
  \/ Exit

SpecHtml == Init /\ [][NextHtml]_vars

\* C18 (as claimed): when the reference updater has run, no reference to the PNG
\* name, in any case, is left in the document for an asset whose PNG was
\* converted: backed up, gone from cards/, with the JPG in its place.
C18_ConvertedReferencesUpdated ==
  (script = "html" /\ pc \in {"done", "returned"})
  => \A b \in Bases :
       (/\ PlainName(b, "png") \in DOMAIN bak["backup_original"]
        /\ PlainName(b, "png") \notin DOMAIN cards
        /\ PlainName(b, "jpg") \in DOMAIN cards)
       => \A i \in DOMAIN doc.content : ~Matches(PlainName(b, "png"), doc.content[i])

\* the names of the live files of a directory
LiveSet(d) == {n \in DOMAIN d : ~IsTemp(n)}

\* C19: during and after a run of compress_images.py or of
\* compress_webp_aggressive.py the set of live file names of cards/ is the set it
\* was when the run started, whatever the sessions' outcomes.
C19_NoContainerChange ==
  (script \in {"conservative", "webp"} /\ pc \in {"loop", "done", "crashed"})
  => LiveSet(cards) = LiveSet(cards0)

\* C19 witness: a run has ended in which one session committed and another failed
C19_MixedRunEnded ==
  /\ script \in {"conservative", "webp"} /\ pc = "done"
  /\ Committed # {}
  /\ \E n \in DOMAIN log : ~log[n].ok

\* the backup PNGs the loop of restore_and_convert.py processes
BackupPngs == {n \in Glob(bak["backup_original"], "png") : ~IsTemp(n)}

\* C20: a step of a restore-and-convert run never changes the backup areas, and
\* when the run has ended (with its summary or by an exception that left main)
\* every backup PNG without the temporary prefix has a live file with its base
\* name in cards/ and converted + kept_png + failed is the number of backup PNGs
\* the run selected.
C20_RestoreLeavesLiveFile ==
  [][/\ script' = "restore" => bak' = bak
     /\ (script' = "restore" /\ pc' \in {"done", "crashed"})
        => /\ \A n \in BackupPngs' :
                \E m \in DOMAIN cards' : m.base = n.base /\ ~IsTemp(m)
           /\ stats'.converted + stats'.kept_png + stats'.failed = Cardinality(selected')]_vars

====
